---- MODULE Spec2Model ----
(***************************************************************************)
(* Model of main.py: add_overlay (the image composition engine) and        *)
(* handle_generate (the proxy that calls it on the upstream response).     *)
(***************************************************************************)
EXTENDS Integers, Sequences, FiniteSets, TLC

(***************************************************************************)
(* Bounds of the model.                                                    *)
(***************************************************************************)
MaxW == 12        \* input image widths are 1..MaxW
MaxH == 2         \* input image heights are 1..MaxH
MaxAsset == 2     \* logo asset sides are 1..MaxAsset in Spec and SpecProxy
MaxLogo == 49     \* logo asset sides are 1..MaxLogo in SpecResize
MaxText == 2      \* measured caption sides are 1..MaxText
MaxParts == 2     \* parts of candidates[0]
MaxCands == 2     \* candidates of an upstream response

(***************************************************************************)
(* Program constants.                                                      *)
(***************************************************************************)
LogoDivisor == 6       \* logo_width = image.width // 6
FontDivisor == 25      \* size = image.width // 25
MarginXDivisor == 20   \* image.width // 20
MarginYDivisor == 10   \* image.height // 10
BoxPadding == 5        \* caption box padding
Precision == 53        \* significand bits of a Python float (IEEE binary64)

(***************************************************************************)
(* Python float arithmetic, as used by                                     *)
(*   int(logo.height * (logo_width / logo.width)).                         *)
(* A positive float is [m |-> bits, e |-> k]: the Precision significand    *)
(* bits (most significant first, leading bit 1) and the exponent of the    *)
(* last bit, so that its value is m * 2^e.                                 *)
(***************************************************************************)
\* Every operator below is written so that its evaluation nests only a few
\* levels deep.

\* the binary digits of n >= 0, most significant first (none for 0)
BitLength(n) == CHOOSE L \in 0..30 : n < 2^L /\ (L = 0 \/ 2^(L - 1) <= n)
IntBits(n) == [i \in 1..BitLength(n) |-> (n \div 2^(BitLength(n) - i)) % 2]

\* the number whose binary digits are `bits` (at most 30 of them)
RECURSIVE BitsToInt(_)
BitsToInt(bits) ==
    IF bits = <<>> THEN 0
    ELSE IF Len(bits) = 1 THEN bits[1]
    ELSE LET half == Len(bits) \div 2
             lo == SubSeq(bits, half + 1, Len(bits))
         IN  BitsToInt(SubSeq(bits, 1, half)) * 2^Len(lo) + BitsToInt(lo)

\* bits + 1, the carry rippling from the last bit; one bit longer on overflow
IncBits(bits) ==
    LET zeros == {i \in 1..Len(bits) : bits[i] = 0}
    IN  IF zeros = {} THEN <<1>> \o [i \in 1..Len(bits) |-> 0]
        ELSE LET p == CHOOSE i \in zeros : \A j \in zeros : j <= i
             IN  [i \in 1..Len(bits) |->
                    IF i < p THEN bits[i] ELSE IF i = p THEN 1 ELSE 0]

\* round-half-to-even of the significand `kept` given whether the discarded
\* tail is above, at or below one half of the last kept bit
RoundNearestEven(kept, e, tailCmpHalf) ==
    LET up == tailCmpHalf = "above"
              \/ (tailCmpHalf = "half" /\ kept[Len(kept)] = 1)
        inc == IncBits(kept)
    IN  IF ~up THEN [m |-> kept, e |-> e]
        ELSE IF Len(inc) > Precision
             THEN [m |-> SubSeq(inc, 1, Precision), e |-> e + 1]
             ELSE [m |-> inc, e |-> e]

\* 2^n mod b
RECURSIVE Pow2Mod(_, _)
Pow2Mod(n, b) ==
    IF n = 0 THEN 1 % b
    ELSE LET h == Pow2Mod(n \div 2, b)
         IN  (((h * h) % b) * (IF n % 2 = 1 THEN 2 ELSE 1)) % b

\* what is left of a after i binary places of the long division a / b
Remainder(a, b, i) == ((a % b) * Pow2Mod(i, b)) % b

\* the i-th binary place (i >= 1) of the quotient a / b
QuotBit(a, b, i) == (2 * Remainder(a, b, i - 1)) \div b

\* a / b for positive integers a, b, correctly rounded
FloatDiv(a, b) ==
    LET ib == IntBits(a \div b)
        \* binary places that hold no significant digit yet
        z == IF ib # <<>> THEN 0
             ELSE (CHOOSE i \in 1..30 :
                       QuotBit(a, b, i) = 1 /\ \A j \in 1..(i - 1) : QuotBit(a, b, j) = 0) - 1
        nfrac == Precision - Len(ib)
        m == ib \o [i \in 1..nfrac |-> QuotBit(a, b, z + i)]
        r == Remainder(a, b, z + nfrac)
        cmp == IF 2 * r > b THEN "above"
               ELSE IF 2 * r = b THEN "half"
               ELSE "below"
    IN  RoundNearestEven(m, 0 - (z + nfrac), cmp)

\* the significand is multiplied in three limbs of at most LimbBits bits
LimbBits == Precision \div 3 + 1
LimbBase == 2^LimbBits
PadBits(n) == [i \in 1..LimbBits |-> (n \div 2^(LimbBits - i)) % 2]

\* the exact product bits * k, most significant bit first
MulBits(bits, k) ==
    LET n == Len(bits)
        p0 == k * BitsToInt(SubSeq(bits, n - LimbBits + 1, n))
        p1 == k * BitsToInt(SubSeq(bits, n - 2 * LimbBits + 1, n - LimbBits))
              + p0 \div LimbBase
        p2 == k * BitsToInt(SubSeq(bits, 1, n - 2 * LimbBits)) + p1 \div LimbBase
    IN  IntBits(p2) \o PadBits(p1 % LimbBase) \o PadBits(p0 % LimbBase)

\* k * f for a positive integer k and a positive float f, correctly rounded
FloatMulInt(k, f) ==
    LET p == MulBits(f.m, k)
        L == Len(p)
        kept == SubSeq(p, 1, Precision)
        tail == SubSeq(p, Precision + 1, L)
        cmp == IF tail = <<>> \/ tail[1] = 0 THEN "below"
               ELSE IF \A i \in 2..Len(tail) : tail[i] = 0 THEN "half"
               ELSE "above"
    IN  RoundNearestEven(kept, f.e + (L - Precision), cmp)

\* int(f): truncation toward zero of a positive float below 2^30
FloatTrunc(f) ==
    LET nint == Precision + f.e
    IN  IF nint <= 0 THEN 0 ELSE BitsToInt(SubSeq(f.m, 1, nint))

\* line 58: logo_width = image.width // 6
LogoWidth(W) == W \div LogoDivisor

\* line 59: logo_height = int(logo.height * (logo_width / logo.width)),
\* for a logo asset of size aw x ah
LogoHeight(lw, aw, ah) ==
    IF lw = 0 THEN 0 ELSE FloatTrunc(FloatMulInt(ah, FloatDiv(lw, aw)))

(***************************************************************************)
(* Byte strings and images.  A byte string is described by what it         *)
(* encodes: the container format, the pixel mode, the size and the         *)
(* overlays painted on the picture (each with the region of the canvas it  *)
(* covers, as <<x0, y0, x1, y1>>, x1 and y1 exclusive).                    *)
(***************************************************************************)
NoImage == [fmt |-> "none", mode |-> "none", w |-> 0, h |-> 0, layers |-> <<>>]
Garbage == [fmt |-> "garbage", mode |-> "none", w |-> 0, h |-> 0, layers |-> <<>>]
EmptyBytes == [fmt |-> "empty", mode |-> "none", w |-> 0, h |-> 0, layers |-> <<>>]
\* no byte string (nothing passed, nothing returned yet)
NoBytes == [fmt |-> "unset", mode |-> "none", w |-> 0, h |-> 0, layers |-> <<>>]
IsBytes(b) == b.fmt \in {"PNG", "JPEG", "garbage", "empty"}

Picture(f, m, w, h) == [fmt |-> f, mode |-> m, w |-> w, h |-> h, layers |-> <<>>]

\* the encoded pictures an upstream can send: RGB or RGBA PNG, RGB JPEG
InputImages ==
    {Picture(fm[1], fm[2], w, h) :
        fm \in {<<"PNG", "RGB">>, <<"PNG", "RGBA">>, <<"JPEG", "RGB">>},
        w \in 1..MaxW, h \in 1..MaxH}

Inputs == InputImages \cup {Garbage}

NoLogo == [w |-> 0, h |-> 0]
NoFont == [face |-> "none", size |-> 0]

\* line 54: Image.open succeeds on PNG and JPEG data only
Decodable(b) == b.fmt \in {"PNG", "JPEG"}

\* line 54: Image.open(io.BytesIO(image_data)).convert("RGBA")
OpenRGBA(b) == [b EXCEPT !.fmt = "raw", !.mode = "RGBA"]

\* lines 100-102: image.save(img_byte_arr, format='PNG')
SavePNG(img) == [img EXCEPT !.fmt = "PNG"]

Max(a, b) == IF a >= b THEN a ELSE b
Min(a, b) == IF a <= b THEN a ELSE b

\* drawing and pasting only touch the pixels of the box that lie on the canvas
Clip(box, img) ==
    LET x0 == Max(box[1], 0)
        y0 == Max(box[2], 0)
        x1 == Min(box[3], img.w)
        y1 == Min(box[4], img.h)
    IN  IF x1 <= x0 \/ y1 <= y0 THEN <<0, 0, 0, 0>> ELSE <<x0, y0, x1, y1>>

Paint(img, what, box) ==
    [img EXCEPT !.layers = Append(@, [op |-> what, box |-> Clip(box, img)])]

\* lines 78-79
TextX(img) == img.w \div MarginXDivisor
TextY(img, th) == img.h - th - img.h \div MarginYDivisor

\* lines 83-87: the rectangle's second corner is inclusive
RectangleBox(img, ts) ==
    <<TextX(img) - BoxPadding, TextY(img, ts[2]) - BoxPadding,
      TextX(img) + ts[1] + BoxPadding + 1, TextY(img, ts[2]) + ts[2] + BoxPadding + 1>>

\* line 90
TextBox(img, ts) ==
    <<TextX(img), TextY(img, ts[2]),
      TextX(img) + ts[1], TextY(img, ts[2]) + ts[2]>>

\* lines 93-97
LogoX(img, lg) == img.w - lg.w - img.w \div MarginXDivisor
LogoY(img, lg) == img.h - lg.h - img.h \div MarginYDivisor
PasteBox(img, lg) ==
    <<LogoX(img, lg), LogoY(img, lg), LogoX(img, lg) + lg.w, LogoY(img, lg) + lg.h>>

\* lines 58-60: what the resize leaves in `image` and `logo`
AfterResizeOfImage(img, lg) ==
    [image |-> [img EXCEPT !.w = LogoWidth(img.w),
                           !.h = LogoHeight(LogoWidth(img.w), lg.w, lg.h)],
     logo |-> lg]
AfterResize(img, lg) ==
    [image |-> img,
     logo |-> [w |-> LogoWidth(img.w),
               h |-> LogoHeight(LogoWidth(img.w), lg.w, lg.h)]]

(***************************************************************************)
(* Exceptions.  "OSError" stands for IOError/OSError and its subclasses    *)
(* (a missing file, an unidentified image), "Other" for every other        *)
(* subclass of Exception (ValueError, ImportError, MemoryError, ...).      *)
(***************************************************************************)
ExcKinds == {"OSError", "Other"}

\* line 69: except IOError
FontFallbackCatches(kind) == kind = "OSError"

\* line 103: except Exception
HandlerCatchesIOErrorOnly(kind) == kind = "OSError"
HandlerCatches(kind) == kind \in ExcKinds

\* line 105: return image_data
ExceptReturnEmpty(data) == EmptyBytes
ExceptReturn(data) == data

\* the statements of the try body, in program order (lines 54-102)
StepAfterTextFirst(p) ==
    CASE p = "open_image" -> "open_logo"
      [] p = "open_logo" -> "resize"
      [] p = "resize" -> "font"
      [] p = "font" -> "measure"
      [] p = "measure" -> "text"
      [] p = "text" -> "rectangle"
      [] p = "rectangle" -> "paste"
      [] p = "paste" -> "save"
StepAfter(p) ==
    CASE p = "open_image" -> "open_logo"
      [] p = "open_logo" -> "resize"
      [] p = "resize" -> "font"
      [] p = "font" -> "measure"
      [] p = "measure" -> "rectangle"
      [] p = "rectangle" -> "text"
      [] p = "text" -> "paste"
      [] p = "paste" -> "save"

TrySteps == {"open_image", "open_logo", "resize", "font", "measure",
             "rectangle", "text", "paste", "save"}

(***************************************************************************)
(* The upstream JSON response.                                             *)
(***************************************************************************)
B64Encode(b) == [b64 |-> b]
B64Decode(s) == s.b64

MimeOf(b) == IF b.fmt = "JPEG" THEN "image/jpeg" ELSE "image/png"

TextPart == [text |-> "caption"]
ImagePart(b) == [inlineData |-> [data |-> B64Encode(b), mimeType |-> MimeOf(b)]]

\* line 152: "inlineData" in p
HasInlineData(p) == "inlineData" \in DOMAIN p

\* line 152: next((p for p in parts if "inlineData" in p), None), as the
\* index of the part (0 for None)
LastImageIndex(parts) ==
    LET S == {i \in 1..Len(parts) : HasInlineData(parts[i])}
    IN  IF S = {} THEN 0 ELSE CHOOSE i \in S : \A j \in S : j <= i
FirstImageIndex(parts) ==
    LET S == {i \in 1..Len(parts) : HasInlineData(parts[i])}
    IN  IF S = {} THEN 0 ELSE CHOOSE i \in S : \A j \in S : i <= j

\* line 150: api_response.get("candidates") and len(...) > 0
HasCandidates(r) == "candidates" \in DOMAIN r /\ Len(r.candidates) > 0

\* line 151: api_response["candidates"][0].get("content", {}).get("parts", [])
PartsOf(r) ==
    LET c == r.candidates[1]
    IN  IF "content" \in DOMAIN c /\ "parts" \in DOMAIN c.content
        THEN c.content.parts ELSE <<>>

\* lines 165-166: the part is updated in place
Rewritten(r, i, bytes) ==
    [r EXCEPT !.candidates[1].content.parts[i] =
        [@ EXCEPT !.inlineData.data = B64Encode(bytes),
                  !.inlineData.mimeType = "image/png"]]

VARIABLES
    pc,           \* position in add_overlay
    image_data,   \* add_overlay's argument
    image,        \* the working image
    logo,         \* the logo, as loaded and then as resized
    font,         \* the font in use
    text_size,    \* <<text_width, text_height>> (lines 76-77)
    ops,          \* the composition operations performed so far, in order
    exc,          \* the exception raised in the try body, or "none"
    injected,     \* whether a statement failed for a reason outside the assets
    result,       \* add_overlay's return value
    raised,       \* whether an exception left add_overlay
    logoFile,     \* google_icon.png: "absent", "unreadable" or "ok"
    logoAsset,    \* the size of google_icon.png
    fontFile,     \* ImageFont.truetype: "ok", or the kind of exception it raises
    hpc,          \* position in handle_generate
    api_response, \* the response object handle_generate holds
    upstream,     \* the response as the upstream sent it
    http,         \* what handle_generate returned
    calls         \* number of calls of add_overlay

engine == <<pc, image_data, image, logo, font, text_size, ops, exc, injected,
            result, raised>>
assets == <<logoFile, logoAsset, fontFile>>
proxy == <<hpc, api_response, upstream, http, calls>>
vars == <<engine, assets, proxy>>

(***************************************************************************)
(* add_overlay (lines 37-105).                                             *)
(***************************************************************************)
Return(b) ==
    /\ result' = b
    /\ pc' = "done"

Raise(kind) ==
    /\ exc' = kind
    /\ pc' = "except"

\* lines 51-53: if not os.path.exists(logo_path): return image_data
CheckLogo ==
    /\ pc = "check_logo"
    /\ IF logoFile = "absent"
       THEN Return(image_data)
       ELSE pc' = "open_image" /\ UNCHANGED result
    /\ UNCHANGED <<image_data, image, logo, font, text_size, ops, exc, injected,
                   raised, assets, proxy>>

\* line 54: image = Image.open(io.BytesIO(image_data)).convert("RGBA")
OpenImage ==
    /\ pc = "open_image"
    /\ IF Decodable(image_data)
       THEN /\ image' = OpenRGBA(image_data)
            /\ ops' = Append(ops, "decode")
            /\ pc' = StepAfter(pc)
            /\ UNCHANGED exc
       ELSE /\ Raise("OSError")
            /\ UNCHANGED <<image, ops>>
    /\ UNCHANGED <<image_data, logo, font, text_size, injected, result, raised,
                   assets, proxy>>

\* line 55: logo = Image.open(logo_path).convert("RGBA")
OpenLogo ==
    /\ pc = "open_logo"
    /\ IF logoFile = "ok"
       THEN /\ logo' = logoAsset
            /\ pc' = StepAfter(pc)
            /\ UNCHANGED exc
       ELSE /\ Raise("OSError")
            /\ UNCHANGED logo
    /\ UNCHANGED <<image_data, image, font, text_size, ops, injected, result,
                   raised, assets, proxy>>

\* lines 58-60: logo = logo.resize((logo_width, logo_height))
Resize ==
    /\ pc = "resize"
    /\ image' = AfterResize(image, logo).image
    /\ logo' = AfterResize(image, logo).logo
    /\ pc' = StepAfter(pc)
    /\ UNCHANGED <<image_data, font, text_size, ops, exc, injected, result,
                   raised, assets, proxy>>

\* lines 63-70: ImageFont.truetype, with ImageFont.load_default() on IOError
LoadFont ==
    /\ pc = "font"
    /\ IF fontFile = "ok"
       THEN /\ font' = [face |-> "arial.ttf", size |-> image.w \div FontDivisor]
            /\ pc' = StepAfter(pc)
            /\ UNCHANGED exc
       ELSE IF FontFallbackCatches(fontFile)
            THEN /\ font' = [face |-> "default", size |-> 0]
                 /\ pc' = StepAfter(pc)
                 /\ UNCHANGED exc
            ELSE /\ Raise(fontFile)
                 /\ UNCHANGED font
    /\ UNCHANGED <<image_data, image, logo, text_size, ops, injected, result,
                   raised, assets, proxy>>

\* lines 75-79: text_bbox = draw.textbbox((0, 0), text, font=font); what the
\* font measures is the platform's
Measure ==
    /\ pc = "measure"
    /\ \E tw \in 1..MaxText, th \in 1..MaxText : text_size' = <<tw, th>>
    /\ pc' = StepAfter(pc)
    /\ UNCHANGED <<image_data, image, logo, font, ops, exc, injected, result,
                   raised, assets, proxy>>

\* lines 82-87: draw.rectangle(..., fill=bg_color)
Rectangle ==
    /\ pc = "rectangle"
    /\ image' = Paint(image, "rectangle", RectangleBox(image, text_size))
    /\ ops' = Append(ops, "rectangle")
    /\ pc' = StepAfter(pc)
    /\ UNCHANGED <<image_data, logo, font, text_size, exc, injected, result,
                   raised, assets, proxy>>

\* line 90: draw.text((text_x, text_y), text, font=font, fill=text_color)
Text ==
    /\ pc = "text"
    /\ image' = Paint(image, "text", TextBox(image, text_size))
    /\ ops' = Append(ops, "text")
    /\ pc' = StepAfter(pc)
    /\ UNCHANGED <<image_data, logo, font, text_size, exc, injected, result,
                   raised, assets, proxy>>

\* lines 93-97: image.paste(logo, (logo_x, logo_y), logo)
Paste ==
    /\ pc = "paste"
    /\ image' = Paint(image, "paste", PasteBox(image, logo))
    /\ ops' = Append(ops, "paste")
    /\ pc' = StepAfter(pc)
    /\ UNCHANGED <<image_data, logo, font, text_size, exc, injected, result,
                   raised, assets, proxy>>

\* lines 100-102: image.save(img_byte_arr, format='PNG'); return the bytes
Save ==
    /\ pc = "save"
    /\ ops' = Append(ops, "encode")
    /\ Return(SavePNG(image))
    /\ UNCHANGED <<image_data, image, logo, font, text_size, exc, injected,
                   raised, assets, proxy>>

\* lines 54-102: any statement of the try body may raise for a reason of its
\* own (a truncated file, no memory, a library error)
Fault ==
    /\ pc \in TrySteps
    /\ \E kind \in ExcKinds : Raise(kind)
    /\ injected' = TRUE
    /\ UNCHANGED <<image_data, image, logo, font, text_size, ops, result,
                   raised, assets, proxy>>

\* lines 103-105: except Exception as e: ... return image_data
Except ==
    /\ pc = "except"
    /\ IF HandlerCatches(exc)
       THEN /\ Return(ExceptReturn(image_data))
            /\ UNCHANGED <<exc, raised>>
       ELSE /\ raised' = TRUE
            /\ pc' = "done"
            /\ UNCHANGED <<exc, result>>
    /\ UNCHANGED <<image_data, image, logo, font, text_size, ops, injected,
                   assets, proxy>>

Overlay ==
    \/ CheckLogo \/ OpenImage \/ OpenLogo \/ Resize \/ LoadFont \/ Measure
    \/ Rectangle \/ Text \/ Paste \/ Save \/ Fault \/ Except

\* the state of the files add_overlay reads
AssetStates(side) ==
    /\ logoFile \in {"absent", "unreadable", "ok"}
    /\ logoAsset \in IF logoFile = "ok"
                     THEN [w : 1..side, h : 1..side] ELSE {NoLogo}
    /\ fontFile \in {"ok"} \cup ExcKinds

\* the locals of add_overlay at its entry
EngineEntry ==
    /\ image = NoImage
    /\ logo = NoLogo
    /\ font = NoFont
    /\ text_size = <<0, 0>>
    /\ ops = <<>>
    /\ exc = "none"
    /\ injected = FALSE
    /\ result = NoBytes
    /\ raised = FALSE

ProxyOff ==
    /\ hpc = "off"
    /\ api_response = [none |-> TRUE]
    /\ upstream = [none |-> TRUE]
    /\ http = [status |-> 0]
    /\ calls = 0

\* add_overlay called on any byte string, under any state of the assets
Init ==
    /\ pc = "check_logo"
    /\ image_data \in Inputs
    /\ EngineEntry
    /\ AssetStates(MaxAsset)
    /\ ProxyOff

Next == Overlay

Spec == Init /\ [][Next]_vars

\* the state before line 58, for every image width and logo asset size
InitResize ==
    /\ pc = "resize"
    /\ image_data \in {Picture("PNG", "RGBA", w, 1) : w \in 1..MaxW}
    /\ image = OpenRGBA(image_data)
    /\ logoFile = "ok"
    /\ logoAsset \in [w : 1..MaxLogo, h : 1..MaxLogo]
    /\ logo = logoAsset
    /\ fontFile = "ok"
    /\ font = NoFont
    /\ text_size = <<0, 0>>
    /\ ops = <<"decode">>
    /\ exc = "none"
    /\ injected = FALSE
    /\ result = NoBytes
    /\ raised = FALSE
    /\ ProxyOff

NextResize == Resize

SpecResize == InitResize /\ [][NextResize]_vars

(***************************************************************************)
(* handle_generate (lines 122-179).                                        *)
(***************************************************************************)
SeqUpTo(S, n) == UNION {[1..k -> S] : k \in 0..n}

\* the pictures of the upstream responses
ProxyImages ==
    {Picture("JPEG", "RGB", MaxW, MaxH), Picture("PNG", "RGBA", MaxW, MaxH), Garbage}

PartValues == {TextPart} \cup {ImagePart(b) : b \in ProxyImages}

Candidate(ps) == [content |-> [parts |-> ps], finishReason |-> "STOP"]
BlockedCandidate == [finishReason |-> "SAFETY"]

FirstCandidates ==
    {Candidate(ps) : ps \in SeqUpTo(PartValues, MaxParts)} \cup {BlockedCandidate}
OtherCandidates ==
    {Candidate(<<TextPart>>), Candidate(<<ImagePart(Picture("JPEG", "RGB", MaxW, MaxH))>>)}

\* the JSON bodies of a successful upstream call
Responses ==
    {[usageMetadata |-> "usage"], [candidates |-> <<>>, usageMetadata |-> "usage"]}
    \cup {[candidates |-> <<c>> \o tail, usageMetadata |-> "usage"] :
             c \in FirstCandidates, tail \in SeqUpTo(OtherCandidates, MaxCands - 1)}

ErrorBody == [error |-> "message"]

Respond(code, body) ==
    /\ http' = [status |-> code, body |-> body]
    /\ hpc' = "done"

\* lines 129-131
HGetKey ==
    /\ hpc = "start"
    /\ \E ok \in BOOLEAN :
          IF ok THEN hpc' = "payload" /\ UNCHANGED http
          ELSE Respond(500, ErrorBody)
    /\ UNCHANGED <<engine, assets, api_response, upstream, calls>>

\* lines 134-136
HGetPayload ==
    /\ hpc = "payload"
    /\ \E ok \in BOOLEAN :
          IF ok THEN hpc' = "post" /\ UNCHANGED http
          ELSE Respond(400, ErrorBody)
    /\ UNCHANGED <<engine, assets, api_response, upstream, calls>>

\* lines 142-147 and 172-179: the upstream call and its failure
HPost ==
    /\ hpc = "post"
    /\ \/ \E r \in Responses :
             /\ api_response' = r
             /\ upstream' = r
             /\ hpc' = "scan"
             /\ UNCHANGED http
       \/ \E code \in {502, 429} :
             /\ Respond(code, ErrorBody)
             /\ UNCHANGED <<api_response, upstream>>
    /\ UNCHANGED <<engine, assets, calls>>

\* lines 150-159: find the image part and call add_overlay on its data
HScan ==
    /\ hpc = "scan"
    /\ IF HasCandidates(api_response) /\ FirstImageIndex(PartsOf(api_response)) # 0
       THEN /\ image_data' = B64Decode(
                   PartsOf(api_response)[FirstImageIndex(PartsOf(api_response))]
                       .inlineData.data)
            /\ pc' = "check_logo"
            /\ calls' = calls + 1
            /\ hpc' = "overlay"
       ELSE /\ hpc' = "respond"
            /\ UNCHANGED <<image_data, pc, calls>>
    /\ UNCHANGED <<image, logo, font, text_size, ops, exc, injected, result,
                   raised, assets, api_response, upstream, http>>

\* lines 159-166: add_overlay has returned; rewrite the part in place.  An
\* exception leaving add_overlay would leave handle_generate too.
HRewrite ==
    /\ hpc = "overlay"
    /\ pc = "done"
    /\ IF raised
       THEN /\ Respond(500, ErrorBody)
            /\ UNCHANGED api_response
       ELSE /\ api_response' = Rewritten(api_response,
                                         FirstImageIndex(PartsOf(api_response)),
                                         result)
            /\ hpc' = "respond"
            /\ UNCHANGED http
    /\ UNCHANGED <<engine, assets, upstream, calls>>

\* line 169: return jsonify(api_response)
HRespond ==
    /\ hpc = "respond"
    /\ Respond(200, api_response)
    /\ UNCHANGED <<engine, assets, api_response, upstream, calls>>

Handler == HGetKey \/ HGetPayload \/ HPost \/ HScan \/ HRewrite \/ HRespond

\* one request to /generate, under any state of the assets
InitProxy ==
    /\ hpc = "start"
    /\ api_response = [none |-> TRUE]
    /\ upstream = [none |-> TRUE]
    /\ http = [status |-> 0]
    /\ calls = 0
    /\ pc = "idle"
    /\ image_data = NoBytes
    /\ EngineEntry
    /\ AssetStates(1)

NextProxy == Overlay \/ Handler

SpecProxy == InitProxy /\ [][NextProxy]_vars

(***************************************************************************)
(* Properties.                                                             *)
(***************************************************************************)
IsPrefix(s, t) == Len(s) <= Len(t) /\ SubSeq(t, 1, Len(s)) = s
LayerOps(img) == [i \in 1..Len(img.layers) |-> img.layers[i].op]
Ran == pc = "done"

\* C1: add_overlay never raises to its caller: whatever the input bytes, the
\* state of the logo and font files and the statement that fails, no exception
\* leaves the call, the call is always at a statement of its body, in its
\* handler or returned, and what it returns is a byte string.
C1_NeverRaises ==
    /\ ~raised
    /\ pc \in {"idle", "check_logo", "except", "done"} \cup TrySteps
    /\ Ran => IsBytes(result)

\* C1 witness: a statement after the decode failed with an exception that is
\* not an OSError, and the call has returned the input bytes.
C1_Witness ==
    /\ Ran /\ injected /\ exc = "Other"
    /\ "decode" \in {ops[i] : i \in 1..Len(ops)}
    /\ result = image_data

\* C2: for every input that decodes as PNG or JPEG, with the logo present or
\* absent and the font present or absent, the returned bytes are PNG with an
\* alpha channel.
C2_AlwaysPNG ==
    (/\ Ran /\ image_data \in InputImages /\ ~injected
     /\ logoFile \in {"absent", "ok"}
     /\ fontFile \in {"ok", "OSError"})
    => (result.fmt = "PNG" /\ result.mode = "RGBA")

\* C3: if the logo file is absent or fails to open, only the logo step is
\* skipped: the returned image carries the caption box and the caption text,
\* and no logo.
C3_LogoSkipped ==
    (/\ Ran /\ image_data \in InputImages /\ ~injected
     /\ logoFile \in {"absent", "unreadable"}
     /\ fontFile \in {"ok", "OSError"})
    => (result.fmt = "PNG" /\ LayerOps(result) = <<"rectangle", "text">>)

\* C4: if the font cannot be loaded, in whatever way the load fails, the
\* default font is used and the result is the composited image: caption box,
\* caption text and logo, not the unmodified input.
C4_FontFallback ==
    (/\ Ran /\ image_data \in InputImages /\ ~injected
     /\ logoFile = "ok"
     /\ fontFile # "ok")
    => (/\ font.face = "default"
        /\ result.fmt = "PNG"
        /\ LayerOps(result) = <<"rectangle", "text", "paste">>
        /\ result # image_data)

\* C5: if the input bytes do not decode as an image, add_overlay returns
\* exactly the input bytes and has executed no overlay step, whatever the
\* state of the logo and font files.
C5_DecodeFailure ==
    (Ran /\ ~Decodable(image_data))
    => (/\ result = image_data
        /\ ops = <<>>
        /\ image = NoImage /\ logo = NoLogo /\ font = NoFont)

\* C5 witness: undecodable input with the logo file in place, so that the
\* decode was attempted, failed, and the input came back.
C5_Witness ==
    /\ Ran /\ ~Decodable(image_data)
    /\ logoFile = "ok" /\ exc = "OSError" /\ ~injected
    /\ result = image_data

\* C6: for every valid input image of width W and height H the image in the
\* return value is W x H, the working image is W x H at every step, and every
\* overlay covers only pixels of the W x H canvas, on every return path.
C6_SizePreserved ==
    image_data \in InputImages =>
        /\ image # NoImage => (image.w = image_data.w /\ image.h = image_data.h)
        /\ \A i \in 1..Len(image.layers) :
              LET b == image.layers[i].box
              IN  0 <= b[1] /\ b[1] <= b[3] /\ b[3] <= image_data.w
                  /\ 0 <= b[2] /\ b[2] <= b[4] /\ b[4] <= image_data.h
        /\ (Ran /\ ~raised) =>
              (result.w = image_data.w /\ result.h = image_data.h)

\* C6 witness: a composited result whose caption box and logo both lay partly
\* outside the canvas and were painted on the part inside it.
C6_Witness ==
    /\ Ran /\ result.fmt = "PNG" /\ Len(result.layers) = 3
    /\ RectangleBox(image, text_size)[1] < 0
    /\ result.layers[1].box # <<0, 0, 0, 0>>
    /\ PasteBox(image, logo)[2] < 0
    /\ result.layers[3].box # <<0, 0, 0, 0>>

CompositionOrder == <<"decode", "rectangle", "text", "paste", "encode">>

\* C7: the operations happen in one fixed order: decode, caption rectangle,
\* caption text, logo paste, PNG encoding.  At every moment the operations
\* performed are a prefix of that order, and a run that encoded its image has
\* performed all of them and returns the image as it was encoded.
C7_FixedOrder ==
    /\ IsPrefix(ops, CompositionOrder)
    /\ IsPrefix(LayerOps(image), <<"rectangle", "text", "paste">>)
    /\ (Ran /\ ops # <<>> /\ ops[Len(ops)] = "encode") =>
          /\ ops = CompositionOrder
          /\ result = SavePNG(image)
          /\ LayerOps(result) = <<"rectangle", "text", "paste">>

\* C7 witness: a run that went through all five operations.
C7_Witness == Ran /\ ops = CompositionOrder /\ Len(result.layers) = 3

\* the part of candidates[0] a reader of the upstream response would call its
\* first image part (0 when there is none)
FirstInline(r) ==
    IF "candidates" \notin DOMAIN r \/ r.candidates = <<>> THEN 0
    ELSE IF "content" \notin DOMAIN r.candidates[1] THEN 0
    ELSE LET ps == r.candidates[1].content.parts
         IN  IF \A i \in 1..Len(ps) : "inlineData" \notin DOMAIN ps[i] THEN 0
             ELSE CHOOSE i \in 1..Len(ps) :
                     /\ "inlineData" \in DOMAIN ps[i]
                     /\ \A j \in 1..(i - 1) : "inlineData" \notin DOMAIN ps[j]

\* C8: for every successful upstream response the relayed body is the
\* upstream body with exactly the first inlineData part of candidates[0]
\* replaced (data: base64 of add_overlay's result on the decoded data,
\* mimeType: image/png) and everything else as received; without such a part
\* the body is relayed as received and add_overlay is not called.
C8_RewriteFirstOnly ==
    /\ calls <= 1
    /\ (hpc = "done" /\ http.status = 200) =>
          IF FirstInline(upstream) = 0
          THEN http.body = upstream /\ calls = 0 /\ pc = "idle"
          ELSE LET i == FirstInline(upstream)
                   sent == upstream.candidates[1].content.parts[i].inlineData
               IN  /\ calls = 1
                   /\ image_data = B64Decode(sent.data)
                   /\ http.body =
                        [upstream EXCEPT !.candidates[1].content.parts[i] =
                            [inlineData |-> [data |-> B64Encode(result),
                                             mimeType |-> "image/png"]]]

\* C8 witness: a relayed response whose first candidate held two image parts
\* and whose second candidate held another; only the first was rewritten.
C8_Witness ==
    /\ hpc = "done" /\ http.status = 200 /\ calls = 1
    /\ Len(upstream.candidates) = 2
    /\ Len(upstream.candidates[1].content.parts) = 2
    /\ \A i \in 1..2 : HasInlineData(upstream.candidates[1].content.parts[i])
    /\ HasInlineData(upstream.candidates[2].content.parts[1])
    /\ http.body.candidates[1].content.parts[1]
         # upstream.candidates[1].content.parts[1]
    /\ http.body.candidates[1].content.parts[2]
         = upstream.candidates[1].content.parts[2]

\* C9: the logo's resize target follows the stated formula: for base image
\* width W and logo asset size aw x ah, the width is floor(W / 6) and the
\* height is floor(ah * width / aw).
C9_ResizeFormula ==
    pc = StepAfter("resize") =>
        /\ logo.w = image.w \div LogoDivisor
        /\ logo.h = (logoAsset.h * logo.w) \div logoAsset.w

\* C10: in every relayed response the rewritten part's mimeType agrees with
\* the encoding of its data: a part labelled image/png by handle_generate
\* holds PNG bytes.
C10_MimeMatchesData ==
    (hpc = "done" /\ http.status = 200 /\ calls = 1) =>
        LET p == http.body.candidates[1].content.parts[FirstInline(upstream)]
        IN  p.inlineData.mimeType = "image/png"
            => B64Decode(p.inlineData.data).fmt = "PNG"
====
